---- MODULE Spec2Model ----
(***************************************************************************)
(* A model of xtevenx/test-website's backend store:                        *)
(*   src/src/backend/queue_management.py  (JobWrapper, SimpleQueue)        *)
(*   src/src/backend/database.py          (_decorate_queue, _ensure_exists,*)
(*                                         get_value, set_value)           *)
(* Caller threads submit get_value/set_value calls; the wrapper enqueues   *)
(* one job per call and polls it; one worker thread pops jobs and runs     *)
(* them against JSON files on disk.                                        *)
(***************************************************************************)
EXTENDS Naturals, Sequences, FiniteSets

VARIABLES
    files,      \* path -> what is on disk at db/<path>
    dirs,       \* path -> state of the directory that holds db/<path>
    jobs,       \* the JobWrapper objects, in the order they were put
    queue,      \* SimpleQueue._queue: job ids, head first
    wpc,        \* the worker thread's position
    cur,        \* the worker's next_job (0 before the first get)
    cpc,        \* caller -> position in _decorate_queue.foo
    cjob,       \* caller -> the job of its current call (0: none yet)
    handle,     \* job -> status the handle had when add_job returned
    returned,   \* job -> what foo returned for it
    log         \* the jobs whose thunk ran to its end, in that order

vars == <<files, dirs, jobs, queue, wpc, cur, cpc, cjob, handle, returned, log>>

----------------------------------------------------------------------------
(* Bounds *)

MaxJobs == 2

Callers == {"c1", "c2"}
Files == {"f", "g"}

----------------------------------------------------------------------------
(* Python values.  A value is a record [t, s]: its type and its repr.     *)

PyNone == [t |-> "NoneType", s |-> "None"]
PyStr(s) == [t |-> "str", s |-> s]
PyInt(s) == [t |-> "int", s |-> s]
PyTuple(s) == [t |-> "tuple", s |-> s]
PyList(s) == [t |-> "list", s |-> s]
PySet(s) == [t |-> "set", s |-> s]

(* JSON values as they stand in a file: [j, s].                           *)
JsonVal(j, s) == [j |-> j, s |-> s]

(* json.dump accepts these value types; anything else raises TypeError.   *)
Serializable(v) == v.t \in {"NoneType", "str", "int", "tuple", "list"}

(* json.dump of a value.                                                  *)
EncodeValue(v) ==
    CASE v.t = "NoneType" -> JsonVal("null", "null")
      [] v.t = "str"      -> JsonVal("string", v.s)
      [] v.t = "int"      -> JsonVal("number", v.s)
      [] v.t = "tuple"    -> JsonVal("array", v.s)
      [] v.t = "list"     -> JsonVal("array", v.s)

(* json.load of a value.                                                  *)
DecodeValue(x) ==
    CASE x.j = "null"   -> PyNone
      [] x.j = "string" -> PyStr(x.s)
      [] x.j = "number" -> PyInt(x.s)
      [] x.j = "array"  -> PyList(x.s)

(* json.dump accepts str and int keys (among others) and writes both as   *)
(* a JSON string: the int 1 is written "1".                               *)
KeySerializable(k) == k.t \in {"str", "int"}
KeyStr(k) ==
    CASE k.t = "str" -> k.s
      [] k.t = "int" -> k.s

----------------------------------------------------------------------------
(* Python dicts: a sequence of <<key, value>> pairs, keys distinct,       *)
(* in insertion order.                                                    *)

DictHas(d, k) == \E i \in 1..Len(d) : d[i][1] = k

DictGet(d, k) == d[CHOOSE i \in 1..Len(d) : d[i][1] = k][2]

DictSet(d, k, v) ==
    IF DictHas(d, k)
    THEN [i \in 1..Len(d) |-> IF d[i][1] = k THEN <<k, v>> ELSE d[i]]
    ELSE Append(d, <<k, v>>)

(* File contents: [kind, members].  kind is                               *)
(*   "absent"       no file at the path                                   *)
(*   "object"       a JSON object, members = its <<name, value>> pairs in *)
(*                  the order written (a name may occur twice)            *)
(*   "garbage"      text that is not JSON                                 *)
(*   "empty"        zero bytes (open(fn, "w") and nothing written)        *)
(*   "partial"      the beginning of a JSON object, cut short             *)
(*   "undecodable"  bytes that are not text in the locale's encoding      *)
Absent == [kind |-> "absent", members |-> <<>>]
Object(m) == [kind |-> "object", members |-> m]
Broken(kind) == [kind |-> kind, members |-> <<>>]

NotJson == {"garbage", "empty", "partial", "undecodable"}

(* json.load of an object: dict(pairs), a repeated name keeps its first   *)
(* position and its last value; every key is a str.                       *)
RECURSIVE LoadPairs(_, _)
LoadPairs(m, d) ==
    IF m = <<>> THEN d
    ELSE LoadPairs(Tail(m), DictSet(d, PyStr(Head(m)[1]), DecodeValue(Head(m)[2])))

JsonLoad(c) == LoadPairs(c.members, <<>>)

(* json.dump(data, fp, separators=(",", ":")) can be written when every   *)
(* key and value is serializable.                                         *)
Dumpable(d) ==
    \A i \in 1..Len(d) : KeySerializable(d[i][1]) /\ Serializable(d[i][2])

JsonDump(d) == Object([i \in 1..Len(d) |-> <<KeyStr(d[i][1]), EncodeValue(d[i][2])>>])

----------------------------------------------------------------------------
(* database.py                                                            *)

(* What a thunk hands back.  shape "None" is Python's None (the initial   *)
(* JobWrapper.output), "tuple" is get_value's (value, Result), "result"   *)
(* is set_value's bare Result.                                            *)
NoOutput == [shape |-> "None", val |-> PyNone, res |-> "None"]
GetOutput(v, r) == [shape |-> "tuple", val |-> v, res |-> r]
SetOutput(r) == [shape |-> "result", val |-> PyNone, res |-> r]

Results == {"DATABASE_CORRUPT", "DATABASE_ERROR", "KEY_COLLISION", "KEY_NOT_FOUND", "SUCCESS"}

(* os.makedirs(dirname, exist_ok=True).  The directory is "present",      *)
(* "missing" (and creatable), "not_a_dir" (a path component is a regular  *)
(* file: FileExistsError) or "denied" (PermissionError).                  *)
MakedirsRaises(d) ==
    CASE d = "present"   -> "no"
      [] d = "missing"   -> "no"
      [] d = "not_a_dir" -> "FileExistsError"
      [] d = "denied"    -> "PermissionError"

(* The exceptions _ensure_exists catches around os.makedirs.              *)
MakedirsCaught == {"FileExistsError"}

(* open(fn, "r") and json.load(fp).                                       *)
LoadRaises(c) ==
    CASE c.kind = "absent"      -> "FileNotFoundError"
      [] c.kind = "object"      -> "no"
      [] c.kind = "undecodable" -> "UnicodeDecodeError"
      [] OTHER                  -> "JSONDecodeError"

(* _ensure_exists(fn): [raised, res, files, dirs].                        *)
EnsureExists(fn, fs, ds) ==
    LET mk == MakedirsRaises(ds[fn])
        ds1 == [ds EXCEPT ![fn] = "present"]
        ld == LoadRaises(fs[fn])
    IN  IF mk # "no"
        THEN IF mk \in MakedirsCaught
             THEN [raised |-> FALSE, res |-> "DATABASE_ERROR", files |-> fs, dirs |-> ds]
             ELSE [raised |-> TRUE, res |-> "None", files |-> fs, dirs |-> ds]
        ELSE CASE ld = "no" ->
                    [raised |-> FALSE, res |-> "SUCCESS", files |-> fs, dirs |-> ds1]
               [] ld = "FileNotFoundError" ->
                    [raised |-> FALSE, res |-> "SUCCESS",
                     files |-> [fs EXCEPT ![fn] = JsonDump(<<>>)], dirs |-> ds1]
               [] ld = "JSONDecodeError" ->
                    [raised |-> FALSE, res |-> "DATABASE_CORRUPT", files |-> fs, dirs |-> ds1]
               [] OTHER ->
                    [raised |-> TRUE, res |-> "None", files |-> fs, dirs |-> ds1]

(* A thunk's outcome: whether it raised, its return value, and the disk   *)
(* it leaves.                                                             *)
Outcome(raised, out, fs, ds) == [raised |-> raised, out |-> out, files |-> fs, dirs |-> ds]

(* A get_value that does not leave the file _ensure_exists made.          *)
GetValueNoCreate(fn, key, fs, ds) ==
    LET e == EnsureExists(fn, fs, ds)
        data == JsonLoad(e.files[fn])
    IN  IF e.raised THEN {Outcome(TRUE, NoOutput, fs, e.dirs)}
        ELSE IF e.res # "SUCCESS"
        THEN {Outcome(FALSE, GetOutput(PyNone, e.res), fs, e.dirs)}
        ELSE IF DictHas(data, key)
        THEN {Outcome(FALSE, GetOutput(DictGet(data, key), "SUCCESS"), fs, e.dirs)}
        ELSE {Outcome(FALSE, GetOutput(PyNone, "KEY_NOT_FOUND"), fs, e.dirs)}

(* get_value(fn, key): the set of possible outcomes.                      *)
GetValue(fn, key, fs, ds) ==
    LET e == EnsureExists(fn, fs, ds)
        data == JsonLoad(e.files[fn])
    IN  IF e.raised THEN {Outcome(TRUE, NoOutput, e.files, e.dirs)}
        ELSE IF e.res # "SUCCESS"
        THEN {Outcome(FALSE, GetOutput(PyNone, e.res), e.files, e.dirs)}
        ELSE IF DictHas(data, key)
        THEN {Outcome(FALSE, GetOutput(DictGet(data, key), "SUCCESS"), e.files, e.dirs)}
        ELSE {Outcome(FALSE, GetOutput(PyNone, "KEY_NOT_FOUND"), e.files, e.dirs)}

(* What open(fn, "w") followed by a json.dump that raises leaves on disk: *)
(* nothing when the encoder fails before the first write, the start of    *)
(* the object when it fails between writes.                               *)
FailedDump == {Broken("empty"), Broken("partial")}

(* set_value(fn, key, value, duplicate_ok): the set of possible outcomes. *)
SetValue(fn, key, value, duplicate_ok, fs, ds) ==
    LET e == EnsureExists(fn, fs, ds)
        data == JsonLoad(e.files[fn])
        data1 == DictSet(data, key, value)
    IN  IF e.raised THEN {Outcome(TRUE, NoOutput, e.files, e.dirs)}
        ELSE IF e.res # "SUCCESS"
        THEN {Outcome(FALSE, SetOutput(e.res), e.files, e.dirs)}
        ELSE IF ~duplicate_ok /\ DictHas(data, key)
        THEN {Outcome(FALSE, SetOutput("KEY_COLLISION"), e.files, e.dirs)}
        ELSE IF Dumpable(data1)
        THEN {Outcome(FALSE, SetOutput("SUCCESS"),
                      [e.files EXCEPT ![fn] = JsonDump(data1)], e.dirs)}
        ELSE {Outcome(TRUE, NoOutput, [e.files EXCEPT ![fn] = c], e.dirs) : c \in FailedDump}

(* A call of the public interface, as foo's lambda captures it.           *)
GetCall(fn, key) ==
    [op |-> "get", fn |-> fn, key |-> key, value |-> PyNone, duplicate_ok |-> FALSE]
SetCall(fn, key, value, dup) ==
    [op |-> "set", fn |-> fn, key |-> key, value |-> value, duplicate_ok |-> dup]

(* JobWrapper.job(): the lambda of foo, func applied to the call's args.  *)
Thunk(call, fs, ds) ==
    IF call.op = "get"
    THEN GetValue(call.fn, call.key, fs, ds)
    ELSE SetValue(call.fn, call.key, call.value, call.duplicate_ok, fs, ds)

----------------------------------------------------------------------------
(* The inputs callers draw from.  Keys "1" (a str) and 1 (an int) are     *)
(* different Python keys.                                                 *)

Keys == {PyStr("1"), PyInt("1"), PyStr("a")}
Values == {PyInt("7"), PyTuple("1,2"), PySet("x")}

(* The calls of the concurrent specification: reads and writes of both    *)
(* key types on db/f, and writes on db/g, one of a value json.dump        *)
(* refuses.                                                               *)
Calls ==
    { GetCall("f", PyInt("1")),
      GetCall("f", PyStr("1")),
      SetCall("f", PyInt("1"), PyInt("7"), FALSE),
      SetCall("f", PyStr("1"), PyTuple("1,2"), TRUE),
      SetCall("f", PyStr("a"), PyInt("7"), FALSE),
      SetCall("g", PyStr("a"), PyInt("7"), FALSE),
      SetCall("g", PyStr("a"), PySet("x"), TRUE) }

(* The calls of the single-caller specification: every get and set of     *)
(* every key and value on db/f, and a get and a set on db/g.              *)
SeqCalls ==
    {GetCall("f", k) : k \in Keys}
    \cup {SetCall("f", k, v, d) : k \in Keys, v \in Values, d \in BOOLEAN}
    \cup {GetCall("g", PyStr("a")), SetCall("g", PyStr("a"), PyInt("7"), FALSE)}

(* What may be on disk before the first call.  db/f is there or not, in   *)
(* an existing directory; the directory of db/g is missing, blocked by a  *)
(* regular file, or cannot be created.                                    *)
Disks(contents, dirstates) ==
    {<<[fn \in Files |-> IF fn = "f" THEN c ELSE Absent],
       [fn \in Files |-> IF fn = "f" THEN "present" ELSE d]>> :
        c \in contents, d \in dirstates}

InitDisks == Disks({Absent, Broken("garbage")}, {"missing", "not_a_dir"})

SeqInitDisks ==
    Disks({Absent, Object(<<>>), Broken("garbage"), Broken("undecodable")},
          {"missing", "not_a_dir", "denied"})

----------------------------------------------------------------------------
(* queue_management.py and _decorate_queue                                *)

JobIds == 1..Len(jobs)

(* A JobWrapper that starts out IN_PROGRESS.                              *)
JobWrapperInProgress(c, call) ==
    [caller |-> c, call |-> call, output |-> NoOutput, status |-> "IN_PROGRESS"]

(* JobWrapper.__init__                                                    *)
JobWrapper(c, call) ==
    [caller |-> c, call |-> call, output |-> NoOutput, status |-> "IN_QUEUE"]

NotReturned == [done |-> FALSE, out |-> NoOutput]

InitFrom(disks) ==
    /\ \E d \in disks : files = d[1] /\ dirs = d[2]
    /\ jobs = <<>>
    /\ queue = <<>>
    /\ wpc = "get"
    /\ cur = 0
    /\ cpc = [c \in Callers |-> "idle"]
    /\ cjob = [c \in Callers |-> 0]
    /\ handle = <<>>
    /\ returned = <<>>
    /\ log = <<>>

Init == InitFrom(InitDisks)

(* SimpleQueue.add_job, line 34: construct the JobWrapper and put it.     *)
AddJobPut(c, calls) ==
    /\ cpc[c] = "idle"
    /\ Len(jobs) < MaxJobs
    /\ \E call \in calls :
          jobs' = Append(jobs, JobWrapper(c, call))
    /\ queue' = Append(queue, Len(jobs) + 1)
    /\ cjob' = [cjob EXCEPT ![c] = Len(jobs) + 1]
    /\ handle' = Append(handle, "none")
    /\ returned' = Append(returned, NotReturned)
    /\ cpc' = [cpc EXCEPT ![c] = "add_job_return"]
    /\ UNCHANGED <<files, dirs, wpc, cur, log>>

(* SimpleQueue.add_job, line 35: hand the JobWrapper back to foo.         *)
AddJobReturn(c) ==
    /\ cpc[c] = "add_job_return"
    /\ handle' = [handle EXCEPT ![cjob[c]] = jobs[cjob[c]].status]
    /\ cpc' = [cpc EXCEPT ![c] = "poll"]
    /\ UNCHANGED <<files, dirs, jobs, queue, wpc, cur, cjob, returned, log>>

(* A loop in foo that is left without finding the job COMPLETE.           *)
PollNoWait(c) ==
    /\ cpc[c] = "poll"
    /\ cpc' = [cpc EXCEPT ![c] = "read_output"]
    /\ UNCHANGED <<files, dirs, jobs, queue, wpc, cur, cjob, handle, returned, log>>

(* foo, lines 31-32: the loop's test finds the job COMPLETE and leaves    *)
(* the loop (a test that finds it otherwise changes nothing).             *)
Poll(c) ==
    /\ cpc[c] = "poll"
    /\ jobs[cjob[c]].status = "COMPLETE"
    /\ cpc' = [cpc EXCEPT ![c] = "read_output"]
    /\ UNCHANGED <<files, dirs, jobs, queue, wpc, cur, cjob, handle, returned, log>>

(* foo, line 33: return job.output.                                       *)
Return(c) ==
    /\ cpc[c] = "read_output"
    /\ returned' = [returned EXCEPT ![cjob[c]] = [done |-> TRUE, out |-> jobs[cjob[c]].output]]
    /\ cpc' = [cpc EXCEPT ![c] = "idle"]
    /\ UNCHANGED <<files, dirs, jobs, queue, wpc, cur, cjob, handle, log>>

(* A queue that hands out the newest element (queue.LifoQueue).           *)
QueueGetIndexLifo(q) == Len(q)

(* queue.Queue.get takes the element that was put first.                  *)
QueueGetIndex(q) == 1

(* A get that hands out the element and leaves it in the queue.           *)
RemoveNothing(q, i) == q

RemoveAt(q, i) == [n \in 1..(Len(q) - 1) |-> IF n < i THEN q[n] ELSE q[n + 1]]

(* A worker that takes the next job while a thunk is still running (a     *)
(* second thread started on _worker, or do_job run without waiting).      *)
WorkerAtGetOrRunning == wpc \in {"get", "run"}

(* A worker that is started again after a thunk raised.                   *)
WorkerAtGetOrDead == wpc \in {"get", "dead"}

(* The worker thread is at the top of its loop, in self._queue.get.       *)
WorkerAtGet == wpc = "get"

(* _worker, line 38: block until the queue holds a job, take it.          *)
WorkerGet ==
    /\ WorkerAtGet
    /\ queue # <<>>
    /\ cur' = queue[QueueGetIndex(queue)]
    /\ queue' = RemoveAt(queue, QueueGetIndex(queue))
    /\ wpc' = "do_job"
    /\ UNCHANGED <<files, dirs, jobs, cpc, cjob, handle, returned, log>>

(* A do_job that marks the job COMPLETE before it has run.                *)
DoJobStartSkips ==
    /\ wpc = "do_job"
    /\ jobs' = [jobs EXCEPT ![cur].status = "COMPLETE"]
    /\ wpc' = "run"
    /\ UNCHANGED <<files, dirs, queue, cur, cpc, cjob, handle, returned, log>>

(* do_job, line 21.                                                       *)
DoJobStart ==
    /\ wpc = "do_job"
    /\ jobs' = [jobs EXCEPT ![cur].status = "IN_PROGRESS"]
    /\ wpc' = "run"
    /\ UNCHANGED <<files, dirs, queue, cur, cpc, cjob, handle, returned, log>>

(* A do_job that runs the thunk and drops what it returns.                *)
DoJobRunDropsOutput ==
    /\ wpc = "run"
    /\ \E o \in Thunk(jobs[cur].call, files, dirs) :
          /\ files' = o.files
          /\ dirs' = o.dirs
          /\ IF o.raised
             THEN /\ wpc' = "dead"
                  /\ UNCHANGED <<jobs, log>>
             ELSE /\ UNCHANGED jobs
                  /\ log' = Append(log, cur)
                  /\ wpc' = "complete"
    /\ UNCHANGED <<queue, cur, cpc, cjob, handle, returned>>

(* do_job, line 22: run the thunk and store what it returns.  A thunk     *)
(* that raises unwinds do_job and _worker: the worker thread ends.        *)
DoJobRun ==
    /\ wpc = "run"
    /\ \E o \in Thunk(jobs[cur].call, files, dirs) :
          /\ files' = o.files
          /\ dirs' = o.dirs
          /\ IF o.raised
             THEN /\ wpc' = "dead"
                  /\ UNCHANGED <<jobs, log>>
             ELSE /\ jobs' = [jobs EXCEPT ![cur].output = o.out]
                  /\ log' = Append(log, cur)
                  /\ wpc' = "complete"
    /\ UNCHANGED <<queue, cur, cpc, cjob, handle, returned>>

(* do_job, line 23.                                                       *)
DoJobComplete ==
    /\ wpc = "complete"
    /\ jobs' = [jobs EXCEPT ![cur].status = "COMPLETE"]
    /\ wpc' = "get"
    /\ UNCHANGED <<files, dirs, queue, cur, cpc, cjob, handle, returned, log>>

Next ==
    \/ \E c \in Callers : AddJobPut(c, Calls)
    \/ \E c \in Callers : AddJobReturn(c)
    \/ \E c \in Callers : Poll(c)
    \/ \E c \in Callers : Return(c)
    \/ WorkerGet
    \/ DoJobStart
    \/ DoJobRun
    \/ DoJobComplete

(* Any number of caller threads and the worker, interleaved freely.       *)
Spec == Init /\ [][Next]_vars

(* The worker thread and every caller in foo keep being scheduled: the    *)
(* interpreter switches between runnable threads.                         *)
Worker == WorkerGet \/ DoJobStart \/ DoJobRun \/ DoJobComplete
CallerInFoo(c) == AddJobReturn(c) \/ Poll(c) \/ Return(c)

FairSpec ==
    /\ Init
    /\ [][Next]_vars
    /\ WF_vars(Worker)
    /\ \A c \in Callers : WF_vars(CallerInFoo(c))

(* One caller thread, drawing from every call on every initial disk.      *)
SeqInit == InitFrom(SeqInitDisks)

SeqNext ==
    \/ AddJobPut("c1", SeqCalls)
    \/ AddJobReturn("c1")
    \/ Poll("c1")
    \/ Return("c1")
    \/ WorkerGet
    \/ DoJobStart
    \/ DoJobRun
    \/ DoJobComplete

SeqSpec == SeqInit /\ [][SeqNext]_vars

----------------------------------------------------------------------------
(* Vocabulary of the properties.                                          *)

Status(j) == jobs[j].status
CallOf(j) == jobs[j].call
IsSet(j) == CallOf(j).op = "set"
IsGet(j) == CallOf(j).op = "get"
SameSlot(i, j) == CallOf(i).fn = CallOf(j).fn /\ CallOf(i).key = CallOf(j).key

(* foo has returned for job j, and what it returned.                      *)
HasReturned(j) == returned[j].done
ReturnOf(j) == returned[j].out

(* The thunk of i ran before the thunk of j; right before it.             *)
RanBefore(i, j) ==
    \E m, n \in 1..Len(log) : m < n /\ log[m] = i /\ log[n] = j
RanNext(i, j) ==
    \E n \in 1..(Len(log) - 1) : log[n] = i /\ log[n + 1] = j

(* The file at fn, parsed, maps the JSON name of key to the JSON form of  *)
(* value.                                                                 *)
FileHolds(fn, key, value) ==
    /\ files[fn].kind = "object"
    /\ DictHas(JsonLoad(files[fn]), PyStr(KeyStr(key)))
    /\ DictGet(JsonLoad(files[fn]), PyStr(KeyStr(key))) = DecodeValue(EncodeValue(value))

(* w is v as JSON carries it: the two have the same JSON form (a tuple    *)
(* is written as an array and read back as a list).                       *)
SameJson(w, v) ==
    Serializable(w) /\ Serializable(v) /\ EncodeValue(w) = EncodeValue(v)

(* A get_value result (w, SUCCESS) with w the JSON reading of v.          *)
GotValue(out, v) ==
    out.shape = "tuple" /\ out.res = "SUCCESS" /\ SameJson(out.val, v)

----------------------------------------------------------------------------
(* C1: whatever the callers submit, on one file or on several, at most    *)
(* one job is IN_PROGRESS in every reachable state.                       *)
C1_AtMostOneInProgress ==
    Cardinality({j \in JobIds : Status(j) = "IN_PROGRESS"}) <= 1

(* A job of one caller is IN_PROGRESS while a job of the other caller, on *)
(* the other file, waits in the queue.                                    *)
C1_Witness ==
    \E i, j \in JobIds :
        /\ Status(i) = "IN_PROGRESS"
        /\ Status(j) = "IN_QUEUE"
        /\ jobs[i].caller # jobs[j].caller
        /\ CallOf(i).fn # CallOf(j).fn

(* C2: jobs run in the order they were put: a job put later (a larger     *)
(* job id) leaves IN_QUEUE only when every job put before it is COMPLETE, *)
(* whatever files the two target.                                         *)
C2_FifoOrder ==
    \A a, b \in JobIds :
        (a < b /\ Status(b) # "IN_QUEUE") => Status(a) = "COMPLETE"

(* The later job of two, by different callers on different files, has     *)
(* left IN_QUEUE.                                                         *)
C2_Witness ==
    \E a, b \in JobIds :
        /\ a < b
        /\ Status(b) # "IN_QUEUE"
        /\ jobs[a].caller # jobs[b].caller
        /\ CallOf(a).fn # CallOf(b).fn

(* C3: no lost updates.  When all calls so far are set_value calls on one *)
(* file with pairwise distinct keys, by more than one caller, and all     *)
(* have returned SUCCESS, the file holds every key with its value.        *)
C3_NoLostUpdates ==
    ( /\ Len(jobs) >= 2
      /\ \A j \in JobIds :
            /\ IsSet(j)
            /\ CallOf(j).fn = CallOf(1).fn
            /\ HasReturned(j)
            /\ ReturnOf(j) = SetOutput("SUCCESS")
      /\ \A i, j \in JobIds : i # j => CallOf(i).key # CallOf(j).key
      /\ \E i, j \in JobIds : jobs[i].caller # jobs[j].caller )
    => \A j \in JobIds : FileHolds(CallOf(j).fn, CallOf(j).key, CallOf(j).value)

(* C4: round trip.  On a file that is a JSON object, a caller's           *)
(* set_value(path, k, v, duplicate_ok=True) returns SUCCESS and its       *)
(* get_value(path, k) run right after it returns (v, SUCCESS), v read as  *)
(* JSON carries it.                                                       *)
C4_RoundTrip ==
    \A i, j \in JobIds :
        ( /\ RanNext(i, j)
          /\ jobs[i].caller = jobs[j].caller
          /\ IsSet(i) /\ CallOf(i).duplicate_ok
          /\ IsGet(j) /\ SameSlot(i, j)
          /\ files[CallOf(i).fn].kind = "object"
          /\ HasReturned(i) /\ HasReturned(j) )
        => /\ ReturnOf(i) = SetOutput("SUCCESS")
           /\ GotValue(ReturnOf(j), CallOf(i).value)

C6_CorruptionDetected ==
    [][ ( /\ wpc = "run" /\ wpc' # "run"
          /\ files[CallOf(cur).fn].kind \in NotJson )
        => /\ wpc' = "complete"
           /\ files' = files
           /\ jobs'[cur].output =
                IF IsGet(cur) THEN GetOutput(PyNone, "DATABASE_CORRUPT")
                ELSE SetOutput("DATABASE_CORRUPT") ]_vars

(* C7: a thunk that raises does not end the worker loop.                  *)
C7_WorkerSurvives == wpc # "dead"

(* C8: every job that was put reaches COMPLETE and its caller returns.    *)
C8_EveryJobCompletes ==
    \A j \in 1..MaxJobs :
        (Len(jobs) >= j) ~> (Len(jobs) >= j /\ Status(j) = "COMPLETE" /\ HasReturned(j))

(* C9: no partial writes.  A file that is absent or a JSON object is      *)
(* absent or a JSON object after every step; a set_value step leaves its  *)
(* contents unchanged or rewrites them as the previous mapping with       *)
(* key -> value added, and a get_value step leaves them unchanged or      *)
(* creates the empty object.                                              *)
C9_NoPartialWrites ==
    [][ \A fn \in Files :
          files[fn].kind \in {"absent", "object"}
          => /\ files'[fn].kind \in {"absent", "object"}
             /\ \/ files'[fn] = files[fn]
                \/ files[fn].kind = "absent" /\ files'[fn] = Object(<<>>)
                \/ /\ wpc = "run" /\ IsSet(cur) /\ CallOf(cur).fn = fn
                   /\ JsonLoad(files'[fn]) =
                        DictSet(JsonLoad(files[fn]), PyStr(KeyStr(CallOf(cur).key)),
                                DecodeValue(EncodeValue(CallOf(cur).value))) ]_vars

(* C10: read your writes.  When a caller's set_value(path, k, v) returned *)
(* SUCCESS and its next call, get_value(path, k), has returned, the get   *)
(* returned (w, SUCCESS) with w = v or w the value of another caller's    *)
(* set_value on (path, k) that ran between the two (values read as JSON   *)
(* carries them).                                                         *)
C10_ReadYourWrites ==
    \A i, j \in JobIds :
        ( /\ i < j
          /\ jobs[i].caller = jobs[j].caller
          /\ \A m \in JobIds : (i < m /\ m < j) => jobs[m].caller # jobs[i].caller
          /\ IsSet(i) /\ IsGet(j) /\ SameSlot(i, j)
          /\ ReturnOf(i) = SetOutput("SUCCESS")
          /\ HasReturned(j) )
        => /\ ReturnOf(j).res = "SUCCESS"
           /\ \/ SameJson(ReturnOf(j).val, CallOf(i).value)
              \/ \E m \in JobIds :
                    /\ jobs[m].caller # jobs[i].caller
                    /\ IsSet(m) /\ SameSlot(i, m)
                    /\ RanBefore(i, m) /\ RanBefore(m, j)
                    /\ SameJson(ReturnOf(j).val, CallOf(m).value)

(* C11: the lifecycle is forward-only.  A job is IN_QUEUE when it is      *)
(* made; a step changes a job's status only from IN_QUEUE to IN_PROGRESS  *)
(* or from IN_PROGRESS to COMPLETE, and only in a step of the worker      *)
(* thread (no caller moves in that step).                                 *)
C11_ForwardOnly ==
    [][ /\ \A j \in JobIds :
            Status(j) # jobs'[j].status
            => /\ <<Status(j), jobs'[j].status>> \in
                    {<<"IN_QUEUE", "IN_PROGRESS">>, <<"IN_PROGRESS", "COMPLETE">>}
               /\ wpc' # wpc
               /\ cur = j
               /\ cpc' = cpc
        /\ Len(jobs') >= Len(jobs)
        /\ \A j \in (1..Len(jobs')) \ JobIds : jobs'[j].status = "IN_QUEUE" ]_vars

(* One job has gone through the whole lifecycle and the next one is       *)
(* running while its caller polls.                                        *)
C11_Witness ==
    \E i, j \in JobIds :
        /\ Status(i) = "COMPLETE"
        /\ Status(j) = "IN_PROGRESS"
        /\ cpc[jobs[j].caller] = "poll"

(* C12, as claimed: a job's output is set only while its status is        *)
(* COMPLETE; while it is IN_QUEUE or IN_PROGRESS the output is None.      *)
C12_OutputOnlyWhenComplete ==
    \A j \in JobIds :
        jobs[j].output # NoOutput => Status(j) = "COMPLETE"

(* C12, amended: a job that is IN_QUEUE has no output, a job that is      *)
(* COMPLETE has one, and a job that is IN_PROGRESS has one only while the *)
(* worker stands between do_job's lines 22 and 23 on that job.            *)
C12_OutputBeforeComplete ==
    \A j \in JobIds :
        /\ Status(j) = "IN_QUEUE" => jobs[j].output = NoOutput
        /\ Status(j) = "COMPLETE" => jobs[j].output # NoOutput
        /\ (Status(j) = "IN_PROGRESS" /\ jobs[j].output # NoOutput)
           => (wpc = "complete" /\ cur = j)

(* The worker has stored the output of a job that is still IN_PROGRESS.   *)
C12_Witness ==
    /\ wpc = "complete"
    /\ Status(cur) = "IN_PROGRESS"
    /\ jobs[cur].output # NoOutput

(* Job j is in the worker's queue.                                        *)
Queued(j) == \E n \in 1..Len(queue) : queue[n] = j

(* C13, as claimed: whenever add_job has returned a handle, the handle's  *)
(* status at that moment was IN_QUEUE.                                    *)
C13_HandleInQueueAtReturn ==
    \A j \in JobIds : handle[j] \in {"none", "IN_QUEUE"}

(* C13, amended: a job is IN_QUEUE as long as it is in the queue, and the *)
(* handle add_job returned was IN_QUEUE unless the worker had taken the   *)
(* job off the queue before add_job returned; add_job has returned        *)
(* exactly for the jobs whose caller is past line 35.                     *)
C13_HandleInQueueUnlessTaken ==
    \A j \in JobIds :
        /\ Queued(j) => Status(j) = "IN_QUEUE"
        /\ handle[j] \notin {"none", "IN_QUEUE"} => ~Queued(j)
        /\ handle[j] = "none"
           <=> (cjob[jobs[j].caller] = j /\ cpc[jobs[j].caller] = "add_job_return")

(* add_job returned a handle that the worker had already completed, and   *)
(* another one that was still IN_QUEUE.                                   *)
C13_Witness ==
    \E i, j \in JobIds : handle[i] = "COMPLETE" /\ handle[j] = "IN_QUEUE"

(* C14: a thunk that runs when the file's directory cannot be made, for   *)
(* whatever reason, ends with DATABASE_ERROR as its result (with None as  *)
(* the value for a get) and leaves every file as it was.                  *)
C14_DirectoryFailureIsError ==
    [][ ( /\ wpc = "run" /\ wpc' # "run"
          /\ MakedirsRaises(dirs[CallOf(cur).fn]) # "no" )
        => /\ wpc' = "complete"
           /\ files' = files
           /\ jobs'[cur].output =
                IF IsGet(cur) THEN GetOutput(PyNone, "DATABASE_ERROR")
                ELSE SetOutput("DATABASE_ERROR") ]_vars

(* The worker runs the thunk of a get_value in this step; the thunk       *)
(* returns in this step.                                                  *)
GetRuns == wpc = "run" /\ wpc' # "run" /\ IsGet(cur)
GetReturns == GetRuns /\ wpc' = "complete"

(* A get_value step changes no file, or makes the missing file of its     *)
(* path as the empty object.                                              *)
GetOnlyCreates ==
    GetRuns =>
        \/ files' = files
        \/ /\ files[CallOf(cur).fn].kind = "absent"
           /\ files' = [files EXCEPT ![CallOf(cur).fn] = Object(<<>>)]

(* A get_value that returns, on an existing JSON object, leaves the file  *)
(* as it is.                                                              *)
GetKeepsValidFile ==
    (GetReturns /\ files[CallOf(cur).fn].kind = "object") => files' = files

(* A get_value that returns, on an absent file (with `when`), has made    *)
(* the file as the empty object and returns (None, KEY_NOT_FOUND).        *)
GetCreatesAbsentFile(when) ==
    (GetReturns /\ files[CallOf(cur).fn].kind = "absent" /\ when)
    => /\ files'[CallOf(cur).fn] = Object(<<>>)
       /\ jobs'[cur].output = GetOutput(PyNone, "KEY_NOT_FOUND")

(* Two get_value calls for the same path and key whose thunks ran one     *)
(* right after the other have the same output.                            *)
SameGetTwice ==
    \A i, j \in JobIds :
        (RanNext(i, j) /\ IsGet(i) /\ IsGet(j) /\ SameSlot(i, j))
        => jobs[i].output = jobs[j].output

(* C15, as claimed: get_value changes the store only by creating a        *)
(* missing file; on an absent file it makes the empty object and returns  *)
(* (None, KEY_NOT_FOUND); an existing valid file is left unchanged; two   *)
(* consecutive gets of one path and key return the same.                  *)
C15_GetFrame ==
    [][ /\ GetOnlyCreates
        /\ GetKeepsValidFile
        /\ GetCreatesAbsentFile(TRUE)
        /\ SameGetTwice' ]_vars

(* C15, amended: the same, with the absent file made (and KEY_NOT_FOUND   *)
(* returned) when the file's directory exists or can be made, and no file *)
(* made when it cannot.                                                   *)
C15_GetFrameWhereDirectory ==
    [][ /\ GetOnlyCreates
        /\ GetKeepsValidFile
        /\ GetCreatesAbsentFile(MakedirsRaises(dirs[CallOf(cur).fn]) = "no")
        /\ (GetRuns /\ MakedirsRaises(dirs[CallOf(cur).fn]) # "no") => files' = files
        /\ SameGetTwice' ]_vars

(* Two gets of db/g ran one after the other: the first made the directory *)
(* and the file, both returned (None, KEY_NOT_FOUND).                     *)
C15_Witness ==
    \E i, j \in JobIds :
        /\ RanNext(i, j) /\ IsGet(i) /\ IsGet(j) /\ SameSlot(i, j)
        /\ CallOf(i).fn = "g"
        /\ files["g"] = Object(<<>>)
        /\ HasReturned(i) /\ HasReturned(j)
        /\ ReturnOf(i) = GetOutput(PyNone, "KEY_NOT_FOUND")
        /\ ReturnOf(j) = GetOutput(PyNone, "KEY_NOT_FOUND")

(* How often job j occurs in the sequence s.                              *)
Occurrences(s, j) == Cardinality({n \in 1..Len(s) : s[n] = j})

(* The worker has taken job j and its thunk has not returned: the worker  *)
(* is about to run it, is running it, or it raised.                       *)
InHand(j) == cur = j /\ wpc \in {"do_job", "run", "dead"}

(* C16: every call has exactly one job (a caller inside foo has one job   *)
(* it has not returned for, a caller outside has none), and every job is  *)
(* exactly once either in the queue, or taken by the worker with its      *)
(* thunk not yet returned, or among the thunks that ran: none runs twice, *)
(* none leaves the queue without being run.                               *)
C16_ExactlyOnce ==
    /\ \A c \in Callers :
          Cardinality({j \in JobIds : jobs[j].caller = c /\ ~HasReturned(j)})
            = IF cpc[c] = "idle" THEN 0 ELSE 1
    /\ \A c \in Callers : cpc[c] # "idle" => jobs[cjob[c]].caller = c
    /\ \A n \in 1..Len(queue) : queue[n] \in JobIds
    /\ \A n \in 1..Len(log) : log[n] \in JobIds
    /\ \A j \in JobIds :
          Occurrences(queue, j) + Occurrences(log, j) + (IF InHand(j) THEN 1 ELSE 0) = 1

(* Two calls by different callers have both been run and returned, and    *)
(* the queue is empty.                                                    *)
C16_Witness ==
    /\ Len(log) = 2
    /\ queue = <<>>
    /\ \E i, j \in JobIds :
          /\ jobs[i].caller # jobs[j].caller
          /\ HasReturned(i) /\ HasReturned(j)

(* C17: once a thunk has raised, the worker stays ended and no job        *)
(* changes status: the job that raised is and stays IN_PROGRESS, a job in *)
(* the queue is and stays IN_QUEUE, a job put later is IN_QUEUE, and foo  *)
(* returns for no job that is not COMPLETE.                               *)
C17_NothingMovesAfterRaise ==
    [][ wpc = "dead"
        => /\ wpc' = "dead"
           /\ Status(cur) = "IN_PROGRESS"
           /\ \A j \in JobIds :
                /\ jobs'[j].status = Status(j)
                /\ Queued(j) => Status(j) = "IN_QUEUE"
                /\ j # cur => Status(j) \in {"IN_QUEUE", "COMPLETE"}
                /\ Status(j) # "COMPLETE" => ~returned'[j].done
           /\ \A j \in (1..Len(jobs')) \ JobIds :
                jobs'[j].status = "IN_QUEUE" /\ queue' = Append(queue, j) ]_vars

(* The worker has ended on a job that raised; a job put after that waits  *)
(* in the queue and its caller polls.                                     *)
C17_Witness ==
    /\ wpc = "dead"
    /\ Status(cur) = "IN_PROGRESS"
    /\ cpc[jobs[cur].caller] = "poll"
    /\ \E j \in JobIds :
          /\ j > cur
          /\ Queued(j)
          /\ Status(j) = "IN_QUEUE"
          /\ handle[j] = "IN_QUEUE"
          /\ cpc[jobs[j].caller] = "poll"

(* The shape of what the call of job j returns: get_value a pair,         *)
(* set_value a Result.                                                    *)
OwnShape(j) == IF IsGet(j) THEN "tuple" ELSE "result"

(* C18: a caller returns the result of its own job and never an unset     *)
(* one: output is written once, by the run of the job's own thunk, and    *)
(* what foo returns is that output, read when the job is COMPLETE.        *)
C18_ReturnsOwnResult ==
    [][ /\ \A j \in JobIds :
              jobs'[j].output # jobs[j].output
              => /\ j = cur /\ wpc = "run"
                 /\ jobs[j].output = NoOutput
                 /\ \E o \in Thunk(CallOf(j), files, dirs) :
                       ~o.raised /\ o.out = jobs'[j].output
        /\ \A c \in Callers :
              (cpc[c] = "read_output" /\ cpc'[c] = "idle")
              => /\ jobs[cjob[c]].caller = c
                 /\ Status(cjob[c]) = "COMPLETE"
                 /\ Occurrences(log, cjob[c]) = 1
                 /\ returned'[cjob[c]] = [done |-> TRUE, out |-> jobs[cjob[c]].output]
                 /\ jobs[cjob[c]].output # NoOutput
                 /\ jobs[cjob[c]].output.shape = OwnShape(cjob[c]) ]_vars

(* Two callers have each got the result of their own job: one a pair      *)
(* from get_value, the other a Result from set_value.                     *)
C18_Witness ==
    \E i, j \in JobIds :
       /\ jobs[i].caller # jobs[j].caller
       /\ IsGet(i) /\ IsSet(j)
       /\ HasReturned(i) /\ HasReturned(j)
       /\ ReturnOf(i).shape = "tuple" /\ ReturnOf(j).shape = "result"
       /\ ReturnOf(i) = jobs[i].output /\ ReturnOf(j) = jobs[j].output

====
